---- MODULE Spec2Model ----
(***************************************************************************)
(* A model of the ingress side of atat: the receive buffer, the digester   *)
(* state machine and the three queues that connect it to the client        *)
(* (atat/src/ingress_manager.rs, atat/src/lib.rs).                         *)
(*                                                                         *)
(* The buffer is a heapless String: a sequence of chars.  Every char in it *)
(* comes from `byte as char`, so it is a code point 0..255; code points    *)
(* from 128 on take two bytes of the buffer's capacity.                    *)
(***************************************************************************)
EXTENDS Integers, Sequences, FiniteSets, TLC

VARIABLES
    buf,                \* IngressManager.buf
    buf_incomplete,     \* IngressManager.buf_incomplete
    state,              \* IngressManager.state
    res_q,              \* the response queue (res_p produces, the client consumes)
    urc_q,              \* the URC queue (urc_p produces, the client consumes)
    com_q,              \* the control queue (the client produces, com_c consumes)
    line_term_char,     \* IngressManager.line_term_char
    format_char,        \* IngressManager.format_char
    echo_enabled,       \* IngressManager.echo_enabled
    custom_urc_matcher, \* IngressManager.custom_urc_matcher: "None" or "MyUrcMatcher"
    panicked,           \* digest() hit unimplemented!() or a failed unwrap
    ninputs,            \* Spec: write() calls and control commands so far
    stream,             \* SpecStream: the bytes the modem sends in this run
    pos,                \* SpecStream: how many of them write() has been given
    digesting,          \* SpecPreempt: the digest() that is between its steps
    call                \* SpecHex, SpecInt, SpecLine: the function called, its input, what it returned

vars == <<buf, buf_incomplete, state, res_q, urc_q, com_q, line_term_char,
          format_char, echo_enabled, custom_urc_matcher, panicked, ninputs,
          stream, pos, digesting, call>>

\* ------------------------------------------------------------------ bounds

\* inputs (write() calls and control commands) in a run of Spec
MaxInputs == 3

\* write() calls in a run of SpecOverflow
MaxWrites == 4

\* the bytes of the run of 's' that SpecOverflow sends: one more than the
\* buffer holds
FillLen == 257

\* the bytes of a text handed to HexStr in SpecHex
MaxText == 3

\* the magnitude of the numbers whose numerals are given to the integer
\* deserializer in SpecInt
Far == 300

\* the bytes of a short text in the buffer in SpecLine
MaxLine == 4

\* --------------------------------------------------------------- constants

\* Config::default: line_term_char '\r'
CR == 13
\* Config::default: format_char '\n'
LF == 10
\* String<consts::U256>: the capacity of the buffer in bytes
BufCap == 256
\* get_line::<consts::U128, _> in clear_buf: the capacity of the removed line
ClearCap == 128
\* Queue<Result<..>, consts::U5, u8>
ResCap == 5
\* Queue<String<..>, consts::U10, u8>
UrcCap == 10
\* Queue<Command, consts::U3, u8>
ComCap == 3
\* let min_length = 2
min_length == 2

Idle == "Idle"
ReceivingResponse == "ReceivingResponse"

\* "AT"
STR_AT == <<65, 84>>
\* "OK"
STR_OK == <<79, 75>>
\* "ERROR"
STR_ERROR == <<69, 82, 82, 79, 82>>
\* ">"
STR_GT == <<62>>
\* "@"
STR_AT_SIGN == <<64>>
\* '+'
STR_PLUS == <<43>>
\* "+match" and "+mat" of test::custom_urc_matcher
STR_MATCH == <<43, 109, 97, 116, 99, 104>>
STR_MAT == <<43, 109, 97, 116>>

\* ----------------------------------------------------------- str helpers

\* char::len_utf8 for a code point below 256
LenUtf8(c) == IF c < 128 THEN 1 ELSE 2

\* str::len: the length in bytes, one for every char and one more for every
\* char that takes two
ByteLen(s) == Len(s) + Cardinality({i \in 1..Len(s) : LenUtf8(s[i]) = 2})

\* String::as_bytes: the UTF-8 bytes of the chars of s, code points below 256
Utf8(c) == IF c < 128 THEN <<c>> ELSE <<192 + (c \div 64), 128 + (c % 64)>>
RECURSIVE as_bytes(_)
as_bytes(s) == IF s = <<>> THEN <<>> ELSE Utf8(Head(s)) \o as_bytes(Tail(s))

\* char::is_whitespace, for code points below 256
IsWhitespace(c) == c \in {9, 10, 11, 12, 13, 32, 133, 160}

\* str::starts_with
StartsWith(s, p) == Len(s) >= Len(p) /\ SubSeq(s, 1, Len(p)) = p

\* str::ends_with(char)
EndsWithChar(s, c) == Len(s) > 0 /\ s[Len(s)] = c

\* s[i..] counted in chars, i from 0
Drop(s, i) == SubSeq(s, i + 1, Len(s))

\* s[..i] counted in chars
Take(s, i) == SubSeq(s, 1, i)

\* the chars of s at which needle occurs, as 0-based offsets
Matches(s, needle) ==
    {i \in 0..(Len(s) - Len(needle)) : SubSeq(s, i + 1, i + Len(needle)) = needle}

Contains(s, needle) == Matches(s, needle) # {}

Min(S) == CHOOSE x \in S : \A y \in S : x <= y
Max(S) == CHOOSE x \in S : \A y \in S : x >= y

\* str::trim_start
RECURSIVE TrimStart(_)
TrimStart(s) ==
    IF s # <<>> /\ IsWhitespace(Head(s)) THEN TrimStart(Tail(s)) ELSE s

\* str::trim_end
RECURSIVE TrimEnd(_)
TrimEnd(s) ==
    IF s # <<>> /\ IsWhitespace(s[Len(s)]) THEN TrimEnd(Take(s, Len(s) - 1)) ELSE s

\* str::trim
Trim(s) == TrimEnd(TrimStart(s))

\* ---------------------------------------------------------------- get_line

\* get_line that leaves the terminators after the needle in the buffer
SkipTerminators_none(b, index, ltc, fc) == index

\* the while loop of get_line: index moves over the line_term_char and
\* format_char that follow the needle (index in chars, from 0)
RECURSIVE SkipTerminators(_, _, _, _)
SkipTerminators(b, index, ltc, fc) ==
    IF index < Len(b) /\ b[index + 1] \in {ltc, fc}
    THEN SkipTerminators(b, index + 1, ltc, fc)
    ELSE index

\* get_line::<L, _>(buf, needle, line_term_char, format_char, trim_response,
\* reverse).  some: the Option is Some; line: the returned string; rest: what
\* is left in buf; panic: String::<L>::from was given more than L bytes.
get_line(b, needle, ltc, fc, trim_response, reverse, L) ==
    LET m == Matches(b, needle) IN
    IF m = {}
    THEN [some |-> FALSE, line |-> <<>>, rest |-> b, panic |-> FALSE]
    ELSE LET ind   == IF reverse THEN Max(m) ELSE Min(m)
             index == SkipTerminators(b, ind + Len(needle), ltc, fc)
             part  == Take(b, index)
             ret   == IF trim_response THEN Trim(part) ELSE part
         IN [some  |-> TRUE,
             line  |-> ret,
             rest  |-> Drop(b, index),
             panic |-> ByteLen(ret) > L]

\* ------------------------------------------------------------ the ingress

\* Result<String<U256>, Error> as carried by the response queue
Ok(body) == [tag |-> "Ok", body |-> body, err |-> ""]
Err(kind) == [tag |-> "Err", body |-> <<>>, err |-> kind]

\* Command, as carried by the control queue
ClearBuffer == [cmd |-> "ClearBuffer", st |-> "", ch |-> 0, en |-> FALSE]
ForceState(st) == [cmd |-> "ForceState", st |-> st, ch |-> 0, en |-> FALSE]
SetEcho(e) == [cmd |-> "SetEcho", st |-> "", ch |-> 0, en |-> e]
SetFormat(c) == [cmd |-> "SetFormat", st |-> "", ch |-> c, en |-> FALSE]
SetLineTerm(c) == [cmd |-> "SetLineTerm", st |-> "", ch |-> c, en |-> FALSE]

\* the IngressManager and its queues as one value
Self ==
    [buf |-> buf, buf_incomplete |-> buf_incomplete, state |-> state,
     res_q |-> res_q, urc_q |-> urc_q, com_q |-> com_q,
     line_term_char |-> line_term_char, format_char |-> format_char,
     echo_enabled |-> echo_enabled, custom_urc_matcher |-> custom_urc_matcher,
     panicked |-> panicked]

\* IngressManager::with_custom_urc_matcher, with Config::default's characters
with_custom_urc_matcher(matcher) ==
    [buf |-> <<>>, buf_incomplete |-> FALSE, state |-> Idle,
     res_q |-> <<>>, urc_q |-> <<>>, com_q |-> <<>>,
     line_term_char |-> CR, format_char |-> LF,
     echo_enabled |-> TRUE, custom_urc_matcher |-> matcher,
     panicked |-> FALSE]

\* a notify_response that makes room in a full queue by dropping its oldest
\* item
notify_response_overwrite(s, resp) ==
    IF Len(s.res_q) < ResCap
    THEN [s EXCEPT !.res_q = Append(@, resp)]
    ELSE [s EXCEPT !.res_q = Append(Tail(@), resp)]

\* IngressManager::notify_response: enqueue when the producer is ready
notify_response(s, resp) ==
    IF Len(s.res_q) < ResCap
    THEN [s EXCEPT !.res_q = Append(@, resp)]
    ELSE s

\* a notify_urc that puts the URC at the head of the queue
notify_urc_front(s, resp) ==
    IF Len(s.urc_q) < UrcCap
    THEN [s EXCEPT !.urc_q = <<resp>> \o @]
    ELSE s

\* IngressManager::notify_urc
notify_urc(s, resp) ==
    IF Len(s.urc_q) < UrcCap
    THEN [s EXCEPT !.urc_q = Append(@, resp)]
    ELSE s

\* a push that does not look at the capacity
push_byte_unchecked(s, byte) == [s EXCEPT !.buf = Append(@, byte)]

\* one turn of the loop of write: String::push(byte as char)
push_byte(s, byte) ==
    IF ByteLen(s.buf) + LenUtf8(byte) <= BufCap
    THEN [s EXCEPT !.buf = Append(@, byte)]
    ELSE notify_response(s, Err("Overflow"))

\* IngressManager::write: the loop over the bytes of data, in order (the
\* first half of data, then the second)
RECURSIVE write(_, _)
write(s, data) ==
    IF data = <<>> THEN s
    ELSE IF Len(data) = 1 THEN push_byte(s, data[1])
    ELSE LET h == Len(data) \div 2
             t == write(s, SubSeq(data, 1, h))
         IN IF Len(t.buf) >= 0
            THEN write(t, SubSeq(data, h + 1, Len(data)))
            ELSE t

\* IngressManager::clear_buf
clear_buf(s, complete) ==
    IF complete
    THEN [s EXCEPT !.buf = <<>>]
    ELSE LET removed == get_line(s.buf, <<s.line_term_char>>, s.line_term_char,
                                 s.format_char, FALSE, FALSE, ClearCap)
         IN IF removed.panic THEN [s EXCEPT !.panicked = TRUE]
            ELSE IF removed.some THEN [s EXCEPT !.buf = removed.rest]
            ELSE [s EXCEPT !.buf = <<>>]

\* a handle_com whose ClearBuffer leaves the state as it is
handle_com_keeps_state(s) ==
    IF s.com_q = <<>> THEN s
    ELSE LET com == Head(s.com_q)
             t   == [s EXCEPT !.com_q = Tail(@)]
         IN CASE com.cmd = "ClearBuffer" -> clear_buf(t, TRUE)
              [] com.cmd = "ForceState"  -> [t EXCEPT !.state = com.st]
              [] com.cmd = "SetEcho"     -> [t EXCEPT !.echo_enabled = com.en]
              [] com.cmd = "SetFormat"   -> [t EXCEPT !.format_char = com.ch]
              [] com.cmd = "SetLineTerm" -> [t EXCEPT !.line_term_char = com.ch]

\* a handle_com that dequeues nothing
handle_com_none(s) == s

\* a handle_com that clears the buffer on every command
handle_com_clears(s) ==
    IF s.com_q = <<>> THEN s
    ELSE LET com == Head(s.com_q)
             t   == [s EXCEPT !.com_q = Tail(@), !.buf = <<>>]
         IN CASE com.cmd = "ClearBuffer" -> [t EXCEPT !.state = Idle]
              [] com.cmd = "ForceState"  -> [t EXCEPT !.state = com.st]
              [] com.cmd = "SetEcho"     -> [t EXCEPT !.echo_enabled = com.en]
              [] com.cmd = "SetFormat"   -> [t EXCEPT !.format_char = com.ch]
              [] com.cmd = "SetLineTerm" -> [t EXCEPT !.line_term_char = com.ch]

\* IngressManager::handle_com: at most one command is dequeued
handle_com(s) ==
    IF s.com_q = <<>> THEN s
    ELSE LET com == Head(s.com_q)
             t   == [s EXCEPT !.com_q = Tail(@)]
         IN CASE com.cmd = "ClearBuffer" ->
                     clear_buf([t EXCEPT !.state = Idle], TRUE)
              [] com.cmd = "ForceState"  -> [t EXCEPT !.state = com.st]
              [] com.cmd = "SetEcho"     -> [t EXCEPT !.echo_enabled = com.en]
              [] com.cmd = "SetFormat"   -> [t EXCEPT !.format_char = com.ch]
              [] com.cmd = "SetLineTerm" -> [t EXCEPT !.line_term_char = com.ch]

\* MyUrcMatcher::process of test::custom_urc_matcher: the result, the URC of a
\* Complete and what the matcher leaves in the buffer
MyUrcMatcher_process(b) ==
    IF StartsWith(b, STR_MATCH)
    THEN [result |-> "Complete", urc |-> b, buf |-> <<>>]
    ELSE IF StartsWith(b, STR_MAT)
    THEN [result |-> "Incomplete", urc |-> <<>>, buf |-> b]
    ELSE [result |-> "NotHandled", urc |-> <<>>, buf |-> b]

\* UrcMatcher::process of the configured matcher; no matcher handles nothing
matcher_process(s) ==
    IF s.custom_urc_matcher = "MyUrcMatcher"
    THEN MyUrcMatcher_process(s.buf)
    ELSE [result |-> "NotHandled", urc |-> <<>>, buf |-> s.buf]

\* digest: "Trim leading whitespace"
trim_leading(s) ==
    IF StartsWith(s.buf, <<s.line_term_char>>) \/ StartsWith(s.buf, <<s.format_char>>)
    THEN [s EXCEPT !.buf = TrimStart(@)]
    ELSE s

\* digest, State::Idle: "Handle AT echo responses"
digest_echo(s) ==
    LET g == get_line(s.buf, <<s.line_term_char>>, s.line_term_char,
                      s.format_char, FALSE, FALSE, BufCap)
    IN IF g.some
       THEN [s EXCEPT !.buf = g.rest, !.state = ReceivingResponse,
                      !.buf_incomplete = FALSE]
       ELSE s

\* the URC branch that takes Incomplete like NotHandled
digest_urc_fallthrough(s) ==
    LET m == matcher_process(s)
        t == IF m.result = "Complete"
             THEN notify_urc([s EXCEPT !.buf = m.buf], m.urc)
             ELSE s
        g == get_line(t.buf, <<t.line_term_char>>, t.line_term_char,
                      t.format_char, FALSE, FALSE, BufCap)
    IN IF m.result = "Complete" THEN t
       ELSE IF g.some
       THEN notify_urc([t EXCEPT !.buf = g.rest, !.buf_incomplete = FALSE], g.line)
       ELSE t

\* digest, State::Idle: "Handle URCs"
digest_urc(s) ==
    LET m == matcher_process(s)
        handled == m.result # "NotHandled"
        t == IF m.result = "Complete"
             THEN notify_urc([s EXCEPT !.buf = m.buf], m.urc)
             ELSE s
        g == get_line(t.buf, <<t.line_term_char>>, t.line_term_char,
                      t.format_char, FALSE, FALSE, BufCap)
    IN IF handled THEN t
       ELSE IF g.some
       THEN notify_urc([t EXCEPT !.buf = g.rest, !.buf_incomplete = FALSE], g.line)
       ELSE t

\* a noise branch that marks the buffer and removes nothing from it
digest_noise_retains(s) ==
    [s EXCEPT !.buf_incomplete =
         ~EndsWithChar(s.buf, s.line_term_char)
         /\ ~EndsWithChar(s.buf, s.format_char)]

\* digest, State::Idle: text that is not a valid response type
digest_noise(s) ==
    LET t == [s EXCEPT !.buf_incomplete =
                  ~EndsWithChar(s.buf, s.line_term_char)
                  /\ ~EndsWithChar(s.buf, s.format_char)]
        u == clear_buf(t, FALSE)
    IN IF u.buf # <<>> THEN [u EXCEPT !.buf_incomplete = FALSE] ELSE u

\* a State::Idle that looks for the echo whether or not the buffer is marked
\* incomplete
digest_idle_echo_first(s) ==
    IF ~s.echo_enabled
    THEN [s EXCEPT !.panicked = TRUE]
    ELSE IF s.echo_enabled /\ StartsWith(s.buf, STR_AT)
    THEN digest_echo(s)
    ELSE IF ~s.buf_incomplete /\ StartsWith(s.buf, STR_PLUS)
    THEN digest_urc(s)
    ELSE IF s.buf_incomplete \/ ByteLen(s.buf) > min_length
    THEN digest_noise(s)
    ELSE s

\* digest, State::Idle
digest_idle(s) ==
    IF ~s.echo_enabled
    THEN [s EXCEPT !.panicked = TRUE]
    ELSE IF ~s.buf_incomplete /\ s.echo_enabled /\ StartsWith(s.buf, STR_AT)
    THEN digest_echo(s)
    ELSE IF ~s.buf_incomplete /\ StartsWith(s.buf, STR_PLUS)
    THEN digest_urc(s)
    ELSE IF s.buf_incomplete \/ ByteLen(s.buf) > min_length
    THEN digest_noise(s)
    ELSE s

\* a search for the response that leaves the buffer as it found it
receiving_resp_peek(s) ==
    LET ltc == s.line_term_char
        fc  == s.format_char
        ok  == get_line(s.buf, STR_OK, ltc, fc, TRUE, FALSE, BufCap)
        bd  == get_line(ok.line, <<ltc>>, ltc, fc, TRUE, TRUE, BufCap)
        er  == get_line(s.buf, STR_ERROR, ltc, fc, FALSE, FALSE, BufCap)
        gt  == get_line(s.buf, STR_GT, ltc, fc, FALSE, FALSE, BufCap)
        at  == get_line(s.buf, STR_AT_SIGN, ltc, fc, FALSE, FALSE, BufCap)
    IN IF ok.some
       THEN [found |-> TRUE, buf |-> s.buf,
             resp |-> Ok(IF bd.some THEN bd.line ELSE <<>>)]
       ELSE IF er.some
       THEN [found |-> TRUE, buf |-> s.buf, resp |-> Err("InvalidResponse")]
       ELSE IF gt.some
       THEN [found |-> TRUE, buf |-> s.buf, resp |-> Ok(<<>>)]
       ELSE IF at.some
       THEN [found |-> TRUE, buf |-> s.buf, resp |-> Ok(<<>>)]
       ELSE [found |-> FALSE, buf |-> s.buf, resp |-> Ok(<<>>)]

\* digest, State::ReceivingResponse: the response found in the buffer, if any
\* (found), and what is left in the buffer
receiving_resp(s) ==
    LET ltc == s.line_term_char
        fc  == s.format_char
        ok  == get_line(s.buf, STR_OK, ltc, fc, TRUE, FALSE, BufCap)
        bd  == get_line(ok.line, <<ltc>>, ltc, fc, TRUE, TRUE, BufCap)
        er  == get_line(s.buf, STR_ERROR, ltc, fc, FALSE, FALSE, BufCap)
        gt  == get_line(s.buf, STR_GT, ltc, fc, FALSE, FALSE, BufCap)
        at  == get_line(s.buf, STR_AT_SIGN, ltc, fc, FALSE, FALSE, BufCap)
    IN IF ok.some
       THEN [found |-> TRUE, buf |-> ok.rest,
             resp |-> Ok(IF bd.some THEN bd.line ELSE <<>>)]
       ELSE IF er.some
       THEN [found |-> TRUE, buf |-> er.rest, resp |-> Err("InvalidResponse")]
       ELSE IF gt.some
       THEN [found |-> TRUE, buf |-> gt.rest, resp |-> Ok(<<>>)]
       ELSE IF at.some
       THEN [found |-> TRUE, buf |-> at.rest, resp |-> Ok(<<>>)]
       ELSE [found |-> FALSE, buf |-> s.buf, resp |-> Ok(<<>>)]

\* a ReceivingResponse that returns to Idle whether or not a response was found
digest_receiving_to_idle(s) ==
    LET r == receiving_resp(s)
    IN IF r.found
       THEN [notify_response([s EXCEPT !.buf = r.buf], r.resp) EXCEPT !.state = Idle]
       ELSE [s EXCEPT !.state = Idle]

\* a ReceivingResponse that does not look at the buffer
digest_receiving_blind(s) == s

\* digest, State::ReceivingResponse
digest_receiving(s) ==
    LET r == receiving_resp(s)
    IN IF r.found
       THEN [notify_response([s EXCEPT !.buf = r.buf], r.resp) EXCEPT !.state = Idle]
       ELSE s

\* a digest that makes a second pass over the buffer before it returns
digest_two_passes(s) ==
    LET t == trim_leading(handle_com(s))
        u == IF t.panicked THEN t
             ELSE IF t.state = Idle THEN digest_idle(t)
             ELSE digest_receiving(t)
        v == trim_leading(u)
    IN IF v.panicked THEN v
       ELSE IF v.state = Idle THEN digest_idle(v)
       ELSE digest_receiving(v)

\* a digest that looks for a response whatever the state
digest_ignores_state(s) ==
    LET t == trim_leading(handle_com(s))
    IN IF t.panicked THEN t ELSE digest_receiving(t)

\* IngressManager::digest
digest(s) ==
    LET t == trim_leading(handle_com(s))
    IN IF t.panicked THEN t
       ELSE IF t.state = Idle THEN digest_idle(t)
       ELSE digest_receiving(t)

\* ------------------------------------------------------------- the actions

\* the next state of the ingress and its queues is t
Becomes(t) ==
    /\ buf' = t.buf
    /\ buf_incomplete' = t.buf_incomplete
    /\ state' = t.state
    /\ res_q' = t.res_q
    /\ urc_q' = t.urc_q
    /\ com_q' = t.com_q
    /\ line_term_char' = t.line_term_char
    /\ format_char' = t.format_char
    /\ echo_enabled' = t.echo_enabled
    /\ custom_urc_matcher' = t.custom_urc_matcher
    /\ panicked' = t.panicked

\* the last item of a queue
Last(q) == q[Len(q)]

\* no digest() is between its steps
NoDigest ==
    [busy |-> FALSE, old |-> with_custom_urc_matcher("None"),
     new |-> with_custom_urc_matcher("None")]

\* Result<T, E> of a function of serde_at
Returned(v) == [tag |-> "Ok", val |-> v, err |-> ""]
Failed(e) == [tag |-> "Err", val |-> 0, err |-> e]

\* a call of a function outside the ingress: fn names it, step is "given"
\* (the input is there), "written" (the serializer has run) or "read" (the
\* function has returned), arg is what it is called with beside the text,
\* text the text it is given or has written, out what it returned
Call(fn, step, arg, text, out) ==
    [fn |-> fn, step |-> step, arg |-> arg, text |-> text, out |-> out]

\* no function is called: the ingress runs
NoCall == Call("none", "read", "", <<>>, Failed(""))

\* what the serial source hands to write() in Spec
Chunks ==
    { <<65, 84, 13, 10>>,              \* "AT\r\n"
      <<13, 10>>,                      \* "\r\n"
      <<79, 75>>,                      \* "OK"
      <<79, 75, 13, 10>>,              \* "OK\r\n"
      <<76, 79, 79, 75, 83, 13, 10>>,  \* "LOOKS\r\n"
      <<68, 13, 10>>,                  \* "D\r\n"
      <<69, 82, 82, 79, 82, 13, 10>>,  \* "ERROR\r\n"
      <<43, 67, 77, 69, 32, 69, 82, 82, 79, 82, 58, 32, 49, 48, 13, 10>>,
                                       \* "+CME ERROR: 10\r\n"
      <<43, 67, 77, 83, 32, 69, 82, 82, 79, 82, 58, 32, 49, 48, 13, 10>>,
                                       \* "+CMS ERROR: 10\r\n"
      <<65, 66, 79, 82, 84, 69, 68, 13, 10>>,  \* "ABORTED\r\n"
      <<62>>,                          \* ">"
      <<97, 64, 98, 13, 10>>,          \* "a@b\r\n"
      <<43, 85, 13, 10>>,              \* "+U\r\n"
      <<43, 85>>,                      \* "+U"
      <<43, 109, 97, 116>>,            \* "+mat"
      <<99, 104>>,                     \* "ch"
      <<97, 98, 99>> }                 \* "abc"

\* the control commands the client sends in Spec
Commands ==
    { ClearBuffer, ForceState(ReceivingResponse), ForceState(Idle),
      SetEcho(FALSE) }

\* the ingress and its queues are as constructed
Constructed ==
    \E matcher \in {"None", "MyUrcMatcher"} :
        LET t == with_custom_urc_matcher(matcher)
        IN /\ buf = t.buf
           /\ buf_incomplete = t.buf_incomplete
           /\ state = t.state
           /\ res_q = t.res_q
           /\ urc_q = t.urc_q
           /\ com_q = t.com_q
           /\ line_term_char = t.line_term_char
           /\ format_char = t.format_char
           /\ echo_enabled = t.echo_enabled
           /\ custom_urc_matcher = t.custom_urc_matcher
           /\ panicked = t.panicked

Init ==
    /\ Constructed
    /\ ninputs = 0
    /\ stream = <<>>
    /\ pos = 0
    /\ digesting = NoDigest
    /\ call = NoCall

\* the serial source calls write(data)
Write(data) ==
    /\ ~panicked
    /\ ninputs < MaxInputs
    /\ Becomes(write(Self, data))
    /\ ninputs' = ninputs + 1
    /\ UNCHANGED <<stream, pos, digesting, call>>

\* the ingress task calls digest()
Digest ==
    /\ ~panicked
    /\ Becomes(digest(Self))
    /\ digesting = NoDigest
    /\ UNCHANGED <<ninputs, stream, pos, digesting, call>>

\* the client enqueues a control command (ComProducer::enqueue)
ClientSend(com) ==
    /\ ninputs < MaxInputs
    /\ Len(com_q) < ComCap
    /\ com_q' = Append(com_q, com)
    /\ ninputs' = ninputs + 1
    /\ UNCHANGED <<buf, buf_incomplete, state, res_q, urc_q, line_term_char,
                   format_char, echo_enabled, custom_urc_matcher, panicked,
                   stream, pos, digesting, call>>

\* the client takes a response (ResConsumer::dequeue)
DequeueResponse ==
    /\ res_q # <<>>
    /\ res_q' = Tail(res_q)
    /\ UNCHANGED <<buf, buf_incomplete, state, urc_q, com_q, line_term_char,
                   format_char, echo_enabled, custom_urc_matcher, panicked,
                   ninputs, stream, pos, digesting, call>>

\* the client takes a URC (UrcConsumer::dequeue)
DequeueUrc ==
    /\ urc_q # <<>>
    /\ urc_q' = Tail(urc_q)
    /\ UNCHANGED <<buf, buf_incomplete, state, res_q, com_q, line_term_char,
                   format_char, echo_enabled, custom_urc_matcher, panicked,
                   ninputs, stream, pos, digesting, call>>

Next ==
    \/ \E data \in Chunks : Write(data)
    \/ Digest
    \/ \E com \in Commands : ClientSend(com)
    \/ DequeueResponse
    \/ DequeueUrc

Spec == Init /\ [][Next]_vars

\* ------------------------------------------------- a stream given in chunks

\* digest() called until a call changes nothing (or panics)
RECURSIVE digest_all(_)
digest_all(s) ==
    LET t == digest(s)
    IN IF t = s \/ t.panicked THEN t ELSE digest_all(t)

\* "AT\r\n": the echo line of a command
ECHO == <<65, 84, 13, 10>>

\* the response bodies sent: none, "D", "D\r\nE", "LOOKS", "a@b"
Bodies ==
    { <<>>, <<68>>, <<68, 13, 10, 69>>, <<76, 79, 79, 75, 83>>, <<97, 64, 98>> }

\* what is on the wire for a command: the echo line, the body and OK
Exchange(body) ==
    ECHO \o (IF body = <<>> THEN <<>> ELSE body \o <<CR, LF>>)
         \o STR_OK \o <<CR, LF>>

\* what may precede the exchange: nothing, the noise line "abc\r\n", the
\* URC "+U\r\n"
Prefixes == { <<>>, <<97, 98, 99, 13, 10>>, <<43, 85, 13, 10>> }

\* the byte streams of SpecStream
Streams == { p \o Exchange(b) : p \in Prefixes, b \in Bodies }

InitStream ==
    /\ Constructed
    /\ ninputs = 0
    /\ stream \in Streams
    /\ pos = 0
    /\ digesting = NoDigest
    /\ call = NoCall

\* the next k bytes of the stream are passed to write() and digest() is run
\* until it makes no further progress
WriteDigest(k) ==
    /\ ~panicked
    /\ pos + k <= Len(stream)
    /\ Becomes(digest_all(write(Self, SubSeq(stream, pos + 1, pos + k))))
    /\ pos' = pos + k
    /\ UNCHANGED <<ninputs, stream, digesting, call>>

NextStream == \E k \in 1..(Len(stream) - pos) : WriteDigest(k)

SpecStream == InitStream /\ [][NextStream]_vars

\* ------------------------------------------------ more than the buffer holds

\* a run of n bytes 's', as test::overflow writes
Fill(n) == [i \in 1..n |-> 115]

\* the byte streams of SpecOverflow: the run of 's', alone or after the echo
\* line of a command whose response it is, and then an exchange with no body
OverflowStreams ==
    { pre \o Fill(FillLen) \o Exchange(<<>>) : pre \in { <<>>, ECHO } }

\* the lengths of the data of a write() in SpecOverflow
WriteSizes == { 1, Len(ECHO), FillLen - 1, FillLen, Len(Exchange(<<>>)) }

InitOverflow ==
    /\ Constructed
    /\ ninputs = 0
    /\ stream \in OverflowStreams
    /\ pos = 0
    /\ digesting = NoDigest
    /\ call = NoCall

\* the serial source calls write() with the next k bytes of the stream
WriteNext(k) ==
    /\ ~panicked
    /\ ninputs < MaxWrites
    /\ pos + k <= Len(stream)
    /\ Becomes(write(Self, SubSeq(stream, pos + 1, pos + k)))
    /\ pos' = pos + k
    /\ ninputs' = ninputs + 1
    /\ UNCHANGED <<stream, digesting, call>>

NextOverflow ==
    \/ \E k \in WriteSizes : WriteNext(k)
    \/ Digest

SpecOverflow == InitOverflow /\ [][NextOverflow]_vars

\* ------------------------------------------------- more than the queues hold

\* the concatenation of line(1), ..., line(n)
RECURSIVE Concat(_, _)
Concat(line, n) == IF n = 0 THEN <<>> ELSE Concat(line, n - 1) \o line[n]

\* the i-th URC line sent: "+A\r\n", "+B\r\n", ...
UrcLine(i) == <<43, 64 + i, CR, LF>>

\* the i-th exchange sent: the echo, the body "A", "B", ... and OK
ResponseNo(i) == Exchange(<<64 + i>>)

\* the byte streams of SpecQueues: one URC line more than the URC queue
\* holds, one exchange more than the response queue holds, and the streams
\* of SpecOverflow, whose overflow errors are more than the response queue
\* holds
UrcStream == Concat([i \in 1..(UrcCap + 1) |-> UrcLine(i)], UrcCap + 1)
ResponseStream == Concat([i \in 1..(ResCap + 1) |-> ResponseNo(i)], ResCap + 1)
QueueStreams == { UrcStream, ResponseStream } \cup OverflowStreams

\* the lengths of the data of a write() in SpecQueues: a URC line, an
\* exchange, the run of 's', all that is left of the stream
QueueWriteSizes ==
    { Len(UrcLine(1)), Len(ResponseNo(1)), FillLen, Len(stream) - pos }

InitQueues ==
    /\ Constructed
    /\ ninputs = 0
    /\ stream \in QueueStreams
    /\ pos = 0
    /\ digesting = NoDigest
    /\ call = NoCall

NextQueues ==
    \/ \E k \in QueueWriteSizes \ {0} : WriteNext(k)
    \/ Digest
    \/ DequeueResponse
    \/ DequeueUrc

SpecQueues == InitQueues /\ [][NextQueues]_vars

\* ------------------------------------------- a write that preempts a digest

\* what the serial source hands to write() in SpecPreempt: "AT\r\n",
\* "OK\r\n", "abc", "+U\r\n" and a run of 's' longer than the buffer
PreemptChunks ==
    { <<65, 84, 13, 10>>, <<79, 75, 13, 10>>, <<97, 98, 99>>,
      <<43, 85, 13, 10>>, Fill(FillLen) }

\* digest() up to the store: the control command is handled, the buffer is
\* read and what digest will leave (the remainder built by get_line, the
\* flags, the state, the item to publish) is built from what was read
DigestBegin ==
    /\ ~panicked
    /\ ~digesting.busy
    /\ Becomes(handle_com(Self))
    /\ digesting' = [busy |-> TRUE, old |-> handle_com(Self), new |-> digest(Self)]
    /\ UNCHANGED <<ninputs, stream, pos, call>>

\* digest() from the store on: the remainder replaces the buffer
\* (`*buf = String::from(..)`, buf.clear()) if digest consumed anything, the
\* flags and the state are set and the item is handed to its queue
DigestEnd ==
    /\ digesting.busy
    /\ LET o == digesting.old
           n == digesting.new
           r == IF n.res_q # o.res_q
                THEN notify_response(Self, Last(n.res_q))
                ELSE Self
           u == IF n.urc_q # o.urc_q
                THEN notify_urc(r, Last(n.urc_q))
                ELSE r
       IN Becomes([u EXCEPT !.buf = IF n.buf = o.buf THEN buf ELSE n.buf,
                            !.buf_incomplete = n.buf_incomplete,
                            !.state = n.state,
                            !.panicked = n.panicked])
    /\ digesting' = NoDigest
    /\ UNCHANGED <<ninputs, stream, pos, call>>

\* write() is called from the receive interrupt, between two calls of
\* digest() or between the steps of one
NextPreempt ==
    \/ \E data \in PreemptChunks : Write(data)
    \/ DigestBegin
    \/ DigestEnd

SpecPreempt == Init /\ [][NextPreempt]_vars

\* ------------------------------------------- bytes and settings of any kind

\* what the serial source hands to write() in SpecBytes: the bytes 0, 200
\* and 255, "\r\n \tD\r\n", "xyD", "AT\r\n" and "OK\r\n"
ByteChunks ==
    { <<0>>, <<200>>, <<255>>, <<13, 10, 32, 9, 68, 13, 10>>,
      <<120, 121, 68>>, <<65, 84, 13, 10>>, <<79, 75, 13, 10>> }

\* the control commands the client sends in SpecBytes: the line terminator
\* 'x', the formatting character 'y', echo off, the receive state forced
ByteCommands ==
    { SetLineTerm(120), SetFormat(121), SetEcho(FALSE),
      ForceState(ReceivingResponse) }

NextBytes ==
    \/ \E data \in ByteChunks : Write(data)
    \/ Digest
    \/ \E com \in ByteCommands : ClientSend(com)

SpecBytes == Init /\ [][NextBytes]_vars

\* ------------------------------------------------ digest is called for ever

\* what the serial source hands to write() in SpecLive: "AT\r\n", "OK\r\n",
\* "ERROR\r\n", ">", "D\r\n" and "OK"
LiveChunks ==
    { <<65, 84, 13, 10>>, <<79, 75, 13, 10>>, <<69, 82, 82, 79, 82, 13, 10>>,
      <<62>>, <<68, 13, 10>>, <<79, 75>> }

\* the control commands the client sends in SpecLive
LiveCommands == { ClearBuffer, ForceState(ReceivingResponse) }

NextLive ==
    \/ \E data \in LiveChunks : Write(data)
    \/ Digest
    \/ \E com \in LiveCommands : ClientSend(com)
    \/ DequeueResponse

\* a call of digest would change the ingress: ENABLED <<Digest>>_vars
DigestHasWork == ~panicked /\ digesting = NoDigest /\ digest(Self) # Self

\* "This function should be called regularly for the ingress manager to
\* work": weak fairness of Digest, written out (a digest that has something
\* to do, and keeps having, is eventually run)
DigestFair == []<>(~DigestHasWork) \/ []<><<Digest>>_vars

SpecLive == Init /\ [][NextLive]_vars /\ DigestFair

\* ------------------------------------------------- lines about 128 bytes long

\* the byte streams of SpecLongLine: a line of n times 's' and "\r\n", that is
\* neither echo nor URC, around the capacity of the string that clear_buf
\* copies the removed line into; then an exchange with no body
LongLineStreams ==
    { Fill(n) \o <<CR, LF>> \o Exchange(<<>>) :
          n \in { ClearCap - 3, ClearCap - 2, ClearCap - 1, ClearCap + 1 } }

\* the lengths of the data of a write() in SpecLongLine
LongWriteSizes ==
    { 1, Len(<<CR, LF>>), ClearCap - 3, ClearCap - 1, Len(Exchange(<<>>)) }

InitLongLine ==
    /\ Constructed
    /\ ninputs = 0
    /\ stream \in LongLineStreams
    /\ pos = 0
    /\ digesting = NoDigest
    /\ call = NoCall

NextLongLine ==
    \/ \E k \in LongWriteSizes : WriteNext(k)
    \/ Digest

SpecLongLine == InitLongLine /\ [][NextLongLine]_vars

\* ------------------------------------------------------ serde_at: HexStr<uN>

\* the ingress and the counters of its runs, which a call of serde_at or of
\* get_line leaves alone
IngressVars ==
    <<buf_incomplete, state, res_q, urc_q, com_q, line_term_char, format_char,
      echo_enabled, custom_urc_matcher, panicked, ninputs, stream, pos,
      digesting>>

\* the ingress is as constructed and none of its runs has begun
Untouched ==
    /\ Constructed
    /\ ninputs = 0
    /\ stream = <<>>
    /\ pos = 0
    /\ digesting = NoDigest

\* 2^n
RECURSIVE Pow2(_)
Pow2(n) == IF n = 0 THEN 1 ELSE 2 * Pow2(n - 1)

\* the width in bits of an integer type
Bits(ty) == IF ty \in {"u8", "i8"} THEN 8 ELSE 16

\* $uxx::max_value(), $ixx::max_value(), $ixx::min_value()
max_value(ty) ==
    IF ty \in {"u8", "u16"} THEN Pow2(Bits(ty)) - 1 ELSE Pow2(Bits(ty) - 1) - 1
min_value(ty) ==
    IF ty \in {"u8", "u16"} THEN 0 ELSE 0 - Pow2(Bits(ty) - 1)

\* the bytes a UTF-8 sequence that starts with b takes, 0 if none starts
\* with b
Utf8Width(b) ==
    IF b < 128 THEN 1
    ELSE IF b \in 194..223 THEN 2
    ELSE IF b \in 224..239 THEN 3
    ELSE IF b \in 240..244 THEN 4
    ELSE 0

\* core::str::from_utf8(v).is_ok(): v is a run of UTF-8 sequences (the
\* overlong and surrogate forms of three and four bytes aside)
RECURSIVE from_utf8_ok(_)
from_utf8_ok(v) ==
    IF v = <<>> THEN TRUE
    ELSE LET w == Utf8Width(Head(v))
         IN /\ w > 0
            /\ Len(v) >= w
            /\ \A i \in 2..w : v[i] \in 128..191
            /\ from_utf8_ok(Drop(v, w))

\* "0x" and "0X"
STR_0x == <<48, 120>>
STR_0X == <<48, 88>>

\* visit_bytes: the match on c; -1 for None
hex_digit(c) ==
    IF c \in 48..57 THEN c - 48
    ELSE IF c \in 65..70 THEN 10 + (c - 65)
    ELSE IF c \in 97..102 THEN 10 + (c - 97)
    ELSE 0 - 1

\* visit_bytes: ret.shl(4i32).checked_add(v).ok_or(custom("Invalid number"))
\* in the type ty: shl drops the bits that leave the type, checked_add fails
\* when the sum does
shl_checked_add(ret, v, ty) ==
    LET shifted == (ret * 16) % Pow2(Bits(ty))
    IN IF shifted + v > max_value(ty)
       THEN Failed("Invalid number")
       ELSE Returned(shifted + v)

\* visit_bytes: the for loop over the first n bytes of s (a byte of a char
\* of more than one byte matches no digit, as the char does not)
RECURSIVE hex_loop(_, _, _)
hex_loop(s, n, ty) ==
    IF n = 0 THEN Returned(0)
    ELSE LET r == hex_loop(s, n - 1, ty)
             v == hex_digit(s[n])
         IN IF r.tag = "Err" \/ v < 0 THEN r
            ELSE shl_checked_add(r.val, v, ty)

\* HexLiteralVisitor::<ty>::visit_bytes(v)
visit_bytes(v, ty) ==
    IF ~from_utf8_ok(v) THEN Failed("invalid utf-8")
    ELSE LET s == IF StartsWith(v, STR_0x) \/ StartsWith(v, STR_0X)
                  THEN Drop(v, 2)
                  ELSE v
         IN hex_loop(s, Len(s), ty)

\* the bytes of the texts of SpecHex: '0', '1', '9', 'F', 'a', 'x', 'X', ':'
\* and a byte that is no UTF-8
HexBytes == {48, 49, 57, 70, 97, 120, 88, 58, 200}

\* the texts handed to visit_bytes in SpecHex
HexTexts == UNION { [1..n -> HexBytes] : n \in 0..MaxText }

\* the types HexStr is deserialized into in SpecHex
HexTypes == {"u8", "u16"}

InitHex ==
    /\ Untouched
    /\ \E t \in HexTexts : call = Call("HexStr", "given", "", t, Failed(""))

\* <HexStr<ty> as Deserialize>::deserialize with the bytes of the value
DeserializeHexStr(ty) ==
    /\ call.fn = "HexStr"
    /\ call.step = "given"
    /\ call' = [call EXCEPT !.step = "read", !.arg = ty,
                            !.out = visit_bytes(call.text, ty)]
    /\ UNCHANGED <<buf, IngressVars>>

NextHex == \E ty \in HexTypes : DeserializeHexStr(ty)

SpecHex == InitHex /\ [][NextHex]_vars

\* ----------------------------------------------------- serde_at: integers

\* super::uninitialized(): what the [u8; N] holds before the loop writes it
\* is not defined; every cell holds one of these bytes
JunkBytes == {0, 45, 48, 255}

\* &buf[i..] of the [u8; N] buf, as a text
SliceFrom(b, i, N) == [k \in 1..(N - i) |-> b[i + k - 1]]

\* serialize_unsigned!: the loop, from the cell i on
RECURSIVE unsigned_loop(_, _, _)
unsigned_loop(b, v, i) ==
    LET b1 == [b EXCEPT ![i] = (v % 10) + 48]
    IN IF v \div 10 = 0 THEN [buf |-> b1, i |-> i]
       ELSE unsigned_loop(b1, v \div 10, i - 1)

\* serialize_unsigned!(self, N, v): the bytes appended to self.buf
serialize_unsigned(N, v, junk) ==
    LET r == unsigned_loop([k \in 0..(N - 1) |-> junk], v, N - 1)
    IN SliceFrom(r.buf, r.i, N)

\* serialize_signed!: the loop, which steps i back before it tests v
RECURSIVE signed_loop(_, _, _)
signed_loop(b, v, i) ==
    LET b1 == [b EXCEPT ![i] = (v % 10) + 48]
    IN IF v \div 10 = 0 THEN [buf |-> b1, i |-> i - 1]
       ELSE signed_loop(b1, v \div 10, i - 1)

\* a serialize_signed! that keeps the cell before the digits of a value
\* that has no sign
serialize_signed_keeps_cell(N, v, ty, junk) ==
    LET signed == v < 0
        u == IF v = min_value(ty) THEN max_value(ty) + 1
             ELSE IF v < 0 THEN 0 - v
             ELSE v
        r == signed_loop([k \in 0..(N - 1) |-> junk], u, N - 1)
        b == IF signed THEN [r.buf EXCEPT ![r.i] = 45] ELSE r.buf
    IN SliceFrom(b, r.i, N)

\* serialize_signed!(self, N, v, ixx, uxx): the bytes appended to self.buf
serialize_signed(N, v, ty, junk) ==
    LET signed == v < 0
        u == IF v = min_value(ty) THEN max_value(ty) + 1
             ELSE IF v < 0 THEN 0 - v
             ELSE v
        r == signed_loop([k \in 0..(N - 1) |-> junk], u, N - 1)
        b == IF signed THEN [r.buf EXCEPT ![r.i] = 45] ELSE r.buf
        i == IF signed THEN r.i ELSE r.i + 1
    IN SliceFrom(b, i, N)

\* Serializer::serialize_i8 / serialize_u8
serialize(ty, v, junk) ==
    IF ty = "i8" THEN serialize_signed(4, v, ty, junk)
    ELSE serialize_unsigned(3, v, junk)

\* Deserializer::parse_whitespace: the index of the first byte of s from
\* index i on (from 0) that is no ' ', '\n', '\t', '\r'
RECURSIVE parse_whitespace(_, _)
parse_whitespace(s, i) ==
    IF i < Len(s) /\ s[i + 1] \in {32, 10, 9, 13} THEN parse_whitespace(s, i + 1)
    ELSE i

\* the loop of deserialize_unsigned! and deserialize_signed!: number is what
\* was read up to index i, sign is 1 or -1; checked_mul and checked_add fail
\* outside the type.  val: the number, index: where reading stopped
RECURSIVE digits_loop(_, _, _, _, _)
digits_loop(s, i, number, sign, ty) ==
    IF i < Len(s) /\ s[i + 1] \in 48..57
    THEN LET m == number * 10
             a == m + (s[i + 1] - 48) * sign
         IN IF m < min_value(ty) \/ m > max_value(ty)
               \/ a < min_value(ty) \/ a > max_value(ty)
            THEN [res |-> Failed("InvalidNumber"), index |-> i + 1]
            ELSE digits_loop(s, i + 1, a, sign, ty)
    ELSE [res |-> Returned(number), index |-> i]

\* deserialize_unsigned!(self, visitor, uxx, visit_uxx), read from index 0
deserialize_unsigned(s, ty) ==
    LET i == parse_whitespace(s, 0)
    IN IF i >= Len(s) THEN [res |-> Failed("EofWhileParsingValue"), index |-> i]
       ELSE IF s[i + 1] = 45 THEN [res |-> Failed("InvalidNumber"), index |-> i]
       ELSE IF s[i + 1] = 48 THEN [res |-> Returned(0), index |-> i + 1]
       ELSE IF s[i + 1] \in 49..57
       THEN digits_loop(s, i + 1, s[i + 1] - 48, 1, ty)
       ELSE [res |-> Failed("InvalidType"), index |-> i]

\* deserialize_signed!(self, visitor, ixx, visit_ixx), read from index 0
deserialize_signed(s, ty) ==
    LET i == parse_whitespace(s, 0)
        signed == i < Len(s) /\ s[i + 1] = 45
        j == IF signed THEN i + 1 ELSE i
        sign == IF signed THEN 0 - 1 ELSE 1
    IN IF i >= Len(s) \/ j >= Len(s)
       THEN [res |-> Failed("EofWhileParsingValue"), index |-> j]
       ELSE IF s[j + 1] = 48 THEN [res |-> Returned(0), index |-> j + 1]
       ELSE IF s[j + 1] \in 49..57
       THEN digits_loop(s, j + 1, (s[j + 1] - 48) * sign, sign, ty)
       ELSE [res |-> Failed("InvalidType"), index |-> j]

\* from_slice::<ty>(s): the value is deserialized and de.end() fails if
\* anything but whitespace follows it
from_slice(s, ty) ==
    LET r == IF ty = "i8" THEN deserialize_signed(s, ty)
             ELSE deserialize_unsigned(s, ty)
    IN IF r.res.tag = "Err" THEN r.res
       ELSE IF parse_whitespace(s, r.index) < Len(s)
       THEN Failed("TrailingCharacters")
       ELSE r.res

\* the decimal numeral of n >= 0, and of any n: no leading zero, '-' before
\* the digits of a negative number
RECURSIVE Digits(_)
Digits(n) == IF n < 10 THEN <<n + 48>> ELSE Digits(n \div 10) \o <<(n % 10) + 48>>
Decimal(n) == IF n < 0 THEN <<45>> \o Digits(0 - n) ELSE Digits(n)

\* the integer types of SpecInt
IntTypes == {"i8", "u8"}

\* a value of ty is given to the serializer, or the numeral of a number of
\* at most Far in magnitude, in the type's range or not, to the deserializer
InitInt ==
    /\ Untouched
    /\ \E ty \in IntTypes :
           \/ \E v \in min_value(ty)..max_value(ty) :
                  call = Call("to_string", "given", [ty |-> ty, v |-> v],
                              <<>>, Failed(""))
           \/ \E n \in (0 - Far)..Far :
                  call = Call("from_slice", "given", [ty |-> ty, v |-> n],
                              Decimal(n), Failed(""))

\* the serializer writes the value; the array it writes the digits to holds
\* junk before
Serialize(junk) ==
    /\ call.fn = "to_string"
    /\ call.step = "given"
    /\ call' = [call EXCEPT !.step = "written",
                            !.text = serialize(call.arg.ty, call.arg.v, junk)]
    /\ UNCHANGED <<buf, IngressVars>>

\* the deserializer reads the text, written by the serializer or given
Deserialize ==
    /\ \/ call.fn = "to_string" /\ call.step = "written"
       \/ call.fn = "from_slice" /\ call.step = "given"
    /\ call' = [call EXCEPT !.step = "read",
                            !.out = from_slice(call.text, call.arg.ty)]
    /\ UNCHANGED <<buf, IngressVars>>

NextInt ==
    \/ \E junk \in JunkBytes : Serialize(junk)
    \/ Deserialize

SpecInt == InitInt /\ [][NextInt]_vars

\* --------------------------------------------------- get_line and clear_buf

\* what the buffer holds when get_line or clear_buf is called in SpecLine:
\* every text of up to MaxLine bytes of 'a', '\r' and '\n', and a line of
\* 's' that with its "\r\n" is as long as the string that clear_buf copies
\* the removed line into, or one byte longer, followed by 'a'
LineTexts ==
    UNION { [1..n -> {97, CR, LF}] : n \in 0..MaxLine }
    \cup { Fill(n) \o <<CR, LF, 97>> : n \in { ClearCap - 2, ClearCap - 1 } }

\* the needles of get_line in SpecLine: the line terminator, as in
\* clear_buf, and "a\r"
Needles == { <<CR>>, <<97, CR>> }

\* test::clear_buf_partial: the ingress is set up and write() is given a text
InitLine ==
    /\ \E text \in LineTexts :
           LET t == write(with_custom_urc_matcher("None"), text)
           IN /\ buf = t.buf
              /\ buf_incomplete = t.buf_incomplete
              /\ state = t.state
              /\ res_q = t.res_q
              /\ urc_q = t.urc_q
              /\ com_q = t.com_q
              /\ line_term_char = t.line_term_char
              /\ format_char = t.format_char
              /\ echo_enabled = t.echo_enabled
              /\ custom_urc_matcher = t.custom_urc_matcher
              /\ panicked = t.panicked
    /\ ninputs = 0
    /\ stream = <<>>
    /\ pos = 0
    /\ digesting = NoDigest
    /\ call = Call("get_line", "given", "", buf, Failed(""))

\* get_line::<U256, _>(&mut self.buf, needle, self.line_term_char,
\* self.format_char, trim_response, reverse)
GetLine(needle, trim_response, reverse) ==
    /\ ~panicked
    /\ call.step = "given"
    /\ LET g == get_line(buf, needle, line_term_char, format_char,
                         trim_response, reverse, BufCap)
       IN /\ buf' = IF g.panic THEN buf ELSE g.rest
          /\ panicked' = g.panic
          /\ call' = Call("get_line", "read",
                          [needle |-> needle, trim_response |-> trim_response,
                           reverse |-> reverse],
                          buf, g)
    /\ UNCHANGED <<buf_incomplete, state, res_q, urc_q, com_q, line_term_char,
                   format_char, echo_enabled, custom_urc_matcher, ninputs,
                   stream, pos, digesting>>

\* self.clear_buf(complete), the first call or one more
ClearBuf(complete) ==
    /\ ~panicked
    /\ call.step = "given" \/ call.fn = "clear_buf"
    /\ Becomes(clear_buf(Self, complete))
    /\ call' = Call("clear_buf", "read", [complete |-> complete], buf, Failed(""))
    /\ UNCHANGED <<ninputs, stream, pos, digesting>>

NextLine ==
    \/ \E needle \in Needles, trim_response, reverse \in BOOLEAN :
           GetLine(needle, trim_response, reverse)
    \/ \E complete \in BOOLEAN : ClearBuf(complete)

SpecLine == InitLine /\ [][NextLine]_vars

\* ------------------------------------------------- what the claims speak of

\* the ingress as the match on the state in digest finds it: the control
\* command handled and the head of the buffer trimmed
Seen == trim_leading(handle_com(Self))

\* the ingress after the step
After == Self'

\* digest is called in State::ReceivingResponse / State::Idle and no control
\* command changes that
Receiving == state = ReceivingResponse /\ Seen.state = ReceivingResponse
Idling == state = Idle /\ Seen.state = Idle

\* digest put exactly one item on the response queue
PublishedOne == Len(After.res_q) = Len(Seen.res_q) + 1
                /\ SubSeq(After.res_q, 1, Len(Seen.res_q)) = Seen.res_q

\* digest put nothing on either queue
PublishedNothing == After.res_q = Seen.res_q /\ After.urc_q = Seen.urc_q

\* the buffer holds needle followed at once by the line terminator
TokenThenTerminator(b, needle) ==
    \E i \in Matches(b, needle) :
        /\ i + Len(needle) + 1 <= Len(b)
        /\ b[i + Len(needle) + 1] = Seen.line_term_char

\* a prompt byte, '>' or '@', at offset i (from 1) of the buffer
IsPromptByte(c) == c \in {62, 64}
PromptBytes(b) == {i \in 1..Len(b) : IsPromptByte(b[i])}

\* the line terminator and the formatting character
IsTerminator(c) == c \in {Seen.line_term_char, Seen.format_char}

\* "+CME ERROR: " and "+CMS ERROR: "
STR_CME == <<43, 67, 77, 69, 32, 69, 82, 82, 79, 82, 58, 32>>
STR_CMS == <<43, 67, 77, 83, 32, 69, 82, 82, 79, 82, 58, 32>>
\* "ABORTED"
STR_ABORTED == <<65, 66, 79, 82, 84, 69, 68>>
\* the error codes of the coded errors that are sent: "10"
Codes == { <<49, 48>> }

\* a terminal token of a response in the words of the specification
TerminalToken(b) ==
    \/ TokenThenTerminator(b, STR_OK)
    \/ TokenThenTerminator(b, STR_ERROR)
    \/ Contains(b, STR_CME)
    \/ Contains(b, STR_CMS)
    \/ Contains(b, STR_ABORTED)
    \/ PromptBytes(b) # {}

\* the length of the first line of b with the terminators that end it
\* (b holds a line terminator)
FirstLineLen(b) ==
    CHOOSE n \in 1..Len(b) :
        \E i \in 1..n :
            /\ b[i] = Seen.line_term_char
            /\ \A j \in 1..(i - 1) : b[j] # Seen.line_term_char
            /\ \A j \in (i + 1)..n : IsTerminator(b[j])
            /\ n = Len(b) \/ ~IsTerminator(b[n + 1])

HasLineTerminator(b) == \E i \in 1..Len(b) : b[i] = Seen.line_term_char

\* ------------------------------------------------------------------ claims

\* the ingress after the whole stream is written at once and digested
Whole == digest_all(write(with_custom_urc_matcher(custom_urc_matcher), stream))

\* C1: whatever the partition of the stream into chunks, once all of it is
\* written and digested the events published and the digester state are those
\* of writing the whole stream at once.
C1_ChunkInvariance ==
    pos = Len(stream)
    => /\ res_q = Whole.res_q
       /\ urc_q = Whole.urc_q
       /\ state = Whole.state

\* C2: after the echo line, a body and OK\r\n are written and digested from
\* Idle with an empty buffer, the response queue holds exactly Ok(body), the
\* state is Idle and the buffer is empty.
C2_RoundTrip ==
    \A body \in Bodies :
        (stream = Exchange(body) /\ pos = Len(stream))
        => /\ res_q = <<Ok(body)>>
           /\ state = Idle
           /\ buf = <<>>

\* the step of digest that C3 speaks of
C3_SuccessOnlyOnOkThenTerminator_Step ==
    (Receiving /\ PublishedOne /\ Last(After.res_q).tag = "Ok"
        /\ PromptBytes(Seen.buf) = {})
    => TokenThenTerminator(Seen.buf, STR_OK)

\* C3: while in ReceivingResponse, digest publishes a success response (one
\* that is not the empty success of a prompt) only when the buffer holds OK
\* followed at once by the line terminator.
C3_SuccessOnlyOnOkThenTerminator == [][Digest => C3_SuccessOnlyOnOkThenTerminator_Step]_vars

\* the step of digest that C4 speaks of
C4_BodyLinesKept_Step ==
    (Receiving /\ ~TerminalToken(Seen.buf))
    => /\ PublishedNothing
       /\ After.state = ReceivingResponse
       /\ After.buf = Seen.buf

\* C4: while in ReceivingResponse, a digest over a buffer that holds no
\* terminal token publishes nothing, stays in ReceivingResponse and keeps the
\* bytes of the buffer.
C4_BodyLinesKept == [][Digest => C4_BodyLinesKept_Step]_vars

\* what C5 says digest does with a buffer that starts with '+' and that no
\* custom matcher claims
C5_UrcLineEffect ==
    IF HasLineTerminator(Seen.buf)
    THEN LET n == FirstLineLen(Seen.buf)
         IN /\ After.buf = Drop(Seen.buf, n)
            /\ After.urc_q = Append(Seen.urc_q, Take(Seen.buf, n))
            /\ After.state = Idle
            /\ After.res_q = Seen.res_q
    ELSE /\ PublishedNothing
         /\ After.buf = Seen.buf

\* the step of digest that C5 speaks of
C5_UrcLine_AsClaimed_Step ==
    (Idling /\ Seen.echo_enabled /\ Len(Seen.urc_q) < UrcCap
        /\ StartsWith(Seen.buf, STR_PLUS)
        /\ matcher_process(Seen).result = "NotHandled")
    => C5_UrcLineEffect

\* C5 as claimed: in Idle, when the buffer starts with '+' and no custom
\* matcher claims it, a terminated line is removed and enqueued as one URC and
\* an unterminated one is kept.
C5_UrcLine_AsClaimed == [][Digest => C5_UrcLine_AsClaimed_Step]_vars

\* the step of digest that C5 speaks of
C5_UrcLine_Step ==
    (Idling /\ Seen.echo_enabled /\ Len(Seen.urc_q) < UrcCap
        /\ ~Seen.buf_incomplete
        /\ StartsWith(Seen.buf, STR_PLUS)
        /\ matcher_process(Seen).result = "NotHandled")
    => C5_UrcLineEffect

\* C5 as amended: the same, when the buffer is not marked incomplete.
C5_UrcLine == [][Digest => C5_UrcLine_Step]_vars

\* C5's case: the line "+U\r\n" was taken from the buffer and is the one URC
C5_Witness ==
    /\ urc_q = << <<43, 85, 13, 10>> >>
    /\ buf = <<>>
    /\ state = Idle
    /\ res_q = <<>>

\* digest consults the custom matcher: Idle, buffer not marked incomplete and
\* starting with '+'
MatcherConsulted ==
    /\ Idling
    /\ Seen.echo_enabled
    /\ ~Seen.buf_incomplete
    /\ StartsWith(Seen.buf, STR_PLUS)
    /\ Seen.custom_urc_matcher # "None"

\* the step of digest that C6 speaks of
C6_MatcherProtocol_Step ==
    MatcherConsulted =>
        LET m == matcher_process(Seen)
        IN CASE m.result = "NotHandled" ->
                    (Len(Seen.urc_q) < UrcCap => C5_UrcLineEffect)
             [] m.result = "Incomplete" ->
                    After = Seen
             [] m.result = "Complete" ->
                    /\ Len(Seen.urc_q) < UrcCap
                           => After.urc_q = Append(Seen.urc_q, m.urc)
                    /\ After.buf = m.buf
                    /\ After.res_q = Seen.res_q
                    /\ After.state = Idle

ErrorEndsBuffer(b) ==
    /\ ~Contains(b, STR_OK)
    /\ Contains(b, STR_ERROR)
    /\ LET i == Min(Matches(b, STR_ERROR)) + Len(STR_ERROR)
       IN /\ i < Len(b)
          /\ b[i + 1] = Seen.line_term_char
          /\ \A j \in (i + 1)..Len(b) : IsTerminator(b[j])

\* the step of digest that C7 speaks of
C7_ErrorResponse_Step ==
    (Receiving /\ ErrorEndsBuffer(Seen.buf) /\ Len(Seen.res_q) < ResCap)
    => /\ After.res_q = Append(Seen.res_q, Err("Error"))
       /\ After.state = Idle
       /\ After.buf = <<>>

\* C7: ERROR and the line terminator digested in ReceivingResponse put
\* exactly one item on the response queue, Err(Error), the generic error
\* kind; afterwards the state is Idle and the buffer is empty.
C7_ErrorResponse == [][Digest => C7_ErrorResponse_Step]_vars

\* Error::CmeError(code) and Error::CmsError(code)
CodedErr(kind, code) == [tag |-> "Err", body |-> code, err |-> kind]

\* the step of digest that C8 speaks of
C8_CodedErrors_Step ==
    \A code \in Codes :
        /\ (Receiving /\ Seen.buf = STR_CME \o code \o <<CR, LF>>
                /\ Len(Seen.res_q) < ResCap)
           => /\ After.res_q = Append(Seen.res_q, CodedErr("CmeError", code))
              /\ After.buf = <<>>
        /\ (Receiving /\ Seen.buf = STR_CMS \o code \o <<CR, LF>>
                /\ Len(Seen.res_q) < ResCap)
           => /\ After.res_q = Append(Seen.res_q, CodedErr("CmsError", code))
              /\ After.buf = <<>>

\* C8: in ReceivingResponse a line "+CME ERROR: <code>" is published as
\* CmeError(code) and "+CMS ERROR: <code>" as CmsError(code), and the whole
\* line is consumed.
C8_CodedErrors == [][Digest => C8_CodedErrors_Step]_vars

\* the step of digest that C9 speaks of
C9_Aborted_Step ==
    (Receiving /\ Seen.buf = STR_ABORTED \o <<CR, LF>>
        /\ Len(Seen.res_q) < ResCap)
    => /\ After.res_q = Append(Seen.res_q, Err("Aborted"))
       /\ After.state = Idle

\* C9: in ReceivingResponse, when ABORTED is received, digest publishes
\* Err(Aborted) and the state returns to Idle.
C9_Aborted == [][Digest => C9_Aborted_Step]_vars

\* a prompt byte that stands at the start of a line of b
PromptAtLineStart(b) ==
    \E i \in PromptBytes(b) : i = 1 \/ IsTerminator(b[i - 1])

\* the step of digest that C10 speaks of
C10_Prompt_Step ==
    (Receiving /\ ~Contains(Seen.buf, STR_OK) /\ ~Contains(Seen.buf, STR_ERROR)
        /\ PromptBytes(Seen.buf) # {} /\ Len(Seen.res_q) < ResCap)
    => IF PromptAtLineStart(Seen.buf)
       THEN /\ After.res_q = Append(Seen.res_q, Ok(<<>>))
            /\ After.state = Idle
       ELSE /\ PublishedNothing
            /\ After.state = ReceivingResponse

\* C10: in ReceivingResponse with no OK and no ERROR in the buffer, a prompt
\* byte at the start of a line is published as Ok("") and the state returns
\* to Idle; a prompt byte inside a body line is not taken as a prompt.
C10_Prompt == [][Digest => C10_Prompt_Step]_vars

\* the data of the write() of this step of SpecOverflow
Written == SubSeq(stream, pos + 1, pos')

\* Range of a queue
Range(q) == { q[i] : i \in 1..Len(q) }

\* the step of write that C11 speaks of
C11_OverflowOnce_Step ==
    (pos' # pos /\ Len(res_q) < ResCap)
    => IF ByteLen(buf) + ByteLen(Written) <= BufCap
       THEN res_q' = res_q
       ELSE res_q' = Append(res_q, Err("Overflow"))

\* C11: a write() whose data does not fit in what is left of the buffer
\* enqueues exactly one Err(Overflow) on the response queue, and a write()
\* whose data fits enqueues none.
C11_OverflowOnce == [][C11_OverflowOnce_Step]_vars

\* C12: in every reachable state the length of the buffer in bytes is at most
\* its capacity, 256.
C12_BufferBounded == ByteLen(buf) <= BufCap

\* C12's case: a write() found the buffer full, the buffer holds its 256
\* bytes and the overflow is on the response queue
C12_Witness ==
    /\ ByteLen(buf) = BufCap
    /\ Err("Overflow") \in Range(res_q)

\* the exchange that ends the stream is written whole in this step, after an
\* overflow was reported
ExchangeAfterOverflow ==
    /\ pos = Len(stream) - Len(Exchange(<<>>))
    /\ pos' = Len(stream)
    /\ Err("Overflow") \in Range(res_q)
    /\ Len(res_q) < ResCap

\* the step that C13 speaks of
C13_OverflowRecovery_Step ==
    ExchangeAfterOverflow
    => Ok(<<>>) \in Range(digest_all(After).res_q)

\* C13: after an overflow was reported, whatever the buffer and the state,
\* the next exchange (echo line, OK\r\n) written is published as Ok(body)
\* once digest has been called until it makes no further progress.
C13_OverflowRecovery == [][C13_OverflowRecovery_Step]_vars

\* the control command that this call of digest dequeues is ClearBuffer
ResetHead == com_q # <<>> /\ Head(com_q) = ClearBuffer

\* two values of the ingress are the same but for the control queue
SameButCommands(a, b) == [a EXCEPT !.com_q = <<>>] = [b EXCEPT !.com_q = <<>>]

\* the step of digest that C14 speaks of
C14_Reset_Step ==
    ResetHead
    => /\ After.buf = <<>>
       /\ After.state = Idle
       /\ (~After.panicked /\ After.com_q # <<>>
              /\ Head(After.com_q) = ClearBuffer)
          => SameButCommands(digest(After), After)

\* C14: a digest that consumes a ClearBuffer command empties the buffer and
\* sets the state to Idle whatever they were, and a digest that consumes a
\* second ClearBuffer right after leaves the buffer, the state, the flags and
\* the response and URC queues as the first left them.
C14_Reset == [][Digest => C14_Reset_Step]_vars

\* C14's case: of two ClearBuffer commands the first was consumed and the
\* second waits
C14_Witness ==
    /\ com_q = <<ClearBuffer>>
    /\ ninputs >= 2
    /\ state = Idle
    /\ buf = <<>>
    /\ ~panicked

\* bodies of one line without the letters of a token
PlainBodies == { <<>>, <<68>> }

\* the step of digest that C15 speaks of
C15_TimeoutSync_Step ==
    (ResetHead /\ Len(com_q) = 1 /\ Seen.echo_enabled
        /\ Len(After.res_q) < ResCap)
    => \A body \in PlainBodies :
          LET e == digest_all(write(After, Exchange(body)))
          IN /\ e.res_q = Append(After.res_q, Ok(body))
             /\ e.state = Idle

\* C15: once a digest has consumed the client's ClearBuffer, the next
\* exchange (echo line, body, OK\r\n) written and digested is published as
\* Ok(body), whatever bytes came before.
C15_TimeoutSync == [][Digest => C15_TimeoutSync_Step]_vars

\* the client enqueues ClearBuffer on an empty control queue in this step
ResetEnqueued == com_q = <<>> /\ com_q' = <<ClearBuffer>>

\* the step that C16 speaks of: data written after the enqueue and digested
\* (late) against the reset taken at the enqueue and the data digested (due)
C16_CancellationBoundary_Step ==
    (ResetEnqueued /\ ~panicked /\ echo_enabled)
    => \A data \in Chunks :
          LET late == digest(write(After, data))
              due  == digest(write(handle_com(After), data))
          IN /\ late.buf = due.buf
             /\ late.state = due.state
             /\ late.res_q = due.res_q
             /\ late.urc_q = due.urc_q

\* C16: bytes passed to write() after the client enqueued ClearBuffer are
\* not discarded when digest later consumes the command: the digest does with
\* them what it does when only the bytes before the enqueue are dropped.
C16_CancellationBoundary == [][C16_CancellationBoundary_Step]_vars

\* C17 as claimed: when digest returns the control queue is empty.
C17_DrainsQueue_AsClaimed == [][Digest => (~After.panicked => com_q' = <<>>)]_vars

\* the step of digest that C17 speaks of
C17_OneCommand_Step ==
    IF com_q = <<>>
    THEN com_q' = <<>>
    ELSE LET com == Head(com_q)
         IN /\ com_q' = Tail(com_q)
            /\ com.cmd = "ClearBuffer" => (buf' = <<>> /\ state' = Idle)
            /\ com.cmd = "SetEcho" => echo_enabled' = com.en
            /\ (com.cmd = "ForceState" /\ buf = <<>>) => state' = com.st

\* C17 as amended: every digest applies the command at the head of the
\* control queue, if there is one, and removes it; the commands behind it
\* stay in the queue, in order, for the next calls.
C17_OneCommand == [][Digest => C17_OneCommand_Step]_vars

\* C17's case: of ForceState(ReceivingResponse) and ClearBuffer, enqueued in
\* this order, one digest has applied the first and left the second
C17_Witness ==
    /\ state = ReceivingResponse
    /\ com_q = <<ClearBuffer>>
    /\ ninputs = 2
    /\ buf = <<>>

\* C18 as claimed: when digest returns, no complete event is left in the
\* buffer: one more call finds nothing to do.
C18_RunsToQuiescence_AsClaimed ==
    [][Digest => ((com_q = <<>> /\ ~After.panicked) => digest(After) = After)]_vars

\* b is what is left of a when chars are taken from its head
IsSuffix(b, a) == Len(b) <= Len(a) /\ b = Drop(a, Len(a) - Len(b))

\* the step of digest that C18 speaks of
C18_OneEvent_Step ==
    /\ Len(After.res_q) + Len(After.urc_q) <= Len(res_q) + Len(urc_q) + 1
    /\ IsSuffix(After.buf, Seen.buf)

\* C18 as amended: a digest publishes at most one item, a response or a URC,
\* and takes what it consumes from the head of the buffer; the events behind
\* it stay in the buffer for the next calls.
C18_OneEvent == [][Digest => C18_OneEvent_Step]_vars

\* C18's case: of two URC lines "+U\r\n" one is published and the other is
\* still in the buffer, for the next digest to publish
C18_Witness ==
    /\ urc_q = << <<43, 85, 13, 10>> >>
    /\ buf = <<43, 85, 13, 10>>
    /\ digest(Self) # Self

\* the control command that this call of digest dequeues is ForceState(st)
Forced(st) == com_q # <<>> /\ Head(com_q) = ForceState(st)

\* digest consumes a complete echo line: the buffer starts with AT and its
\* first line, with the terminators that end it, is taken from its head
EchoLineConsumed ==
    /\ StartsWith(Seen.buf, STR_AT)
    /\ HasLineTerminator(Seen.buf)
    /\ After.buf = Drop(Seen.buf, FirstLineLen(Seen.buf))

\* digest finds one of the tokens it looks for in ReceivingResponse (OK,
\* ERROR, '>' or '@') and publishes a response
ResponseDetected ==
    /\ \/ Contains(Seen.buf, STR_OK)
       \/ Contains(Seen.buf, STR_ERROR)
       \/ PromptBytes(Seen.buf) # {}
    /\ Len(Seen.res_q) < ResCap => PublishedOne

\* the step that C19 speaks of, as claimed
C19_Transitions_AsClaimed_Step ==
    state' # state
    => \/ /\ state = Idle
          /\ state' = ReceivingResponse
          /\ EchoLineConsumed \/ Forced(ReceivingResponse)
       \/ /\ state = ReceivingResponse
          /\ state' = Idle
          /\ ResponseDetected \/ ResetHead

\* C19 as claimed: the state changes only from Idle to ReceivingResponse on
\* a consumed echo line or a force-state command, from ReceivingResponse to
\* Idle on a detected token with a response published in the same step, and
\* to Idle on ClearBuffer; no other step changes it.
C19_Transitions_AsClaimed == [][C19_Transitions_AsClaimed_Step]_vars

\* the step that C19 speaks of
C19_Transitions_Step ==
    state' # state
    => \/ /\ state = Idle
          /\ state' = ReceivingResponse
          /\ EchoLineConsumed \/ Forced(ReceivingResponse)
       \/ /\ state = ReceivingResponse
          /\ state' = Idle
          /\ ResponseDetected \/ ResetHead \/ Forced(Idle)

\* C19 as amended: the same, and from ReceivingResponse to Idle also on a
\* force-state command that names Idle.
C19_Transitions == [][C19_Transitions_Step]_vars

\* C19's case: after an echo line the state was ReceivingResponse, "ch" came
\* and a ForceState(Idle) command took the state back to Idle with no
\* response published
C19_Witness ==
    /\ state = Idle
    /\ buf = <<99, 104>>
    /\ res_q = <<>>
    /\ com_q = <<>>
    /\ ninputs = 3
    /\ ~buf_incomplete

\* "abc\r\n": a terminated line that starts with neither AT nor '+'
NoiseLine == <<97, 98, 99, 13, 10>>

\* C20: when a terminated line that starts with neither AT nor '+' and then
\* the echo line of a command have been written from Idle, in whatever
\* chunks, and digested, the line is discarded with nothing enqueued and the
\* echo has moved the state to ReceivingResponse.
C20_NoiseLineThenEcho ==
    (StartsWith(stream, NoiseLine \o ECHO) /\ pos = Len(NoiseLine \o ECHO))
    => /\ state = ReceivingResponse
       /\ res_q = <<>>
       /\ urc_q = <<>>
       /\ buf = <<>>

\* the buffer as digest finds it in Idle starts with neither AT nor '+'
NoiseHead == ~StartsWith(Seen.buf, STR_AT) /\ ~StartsWith(Seen.buf, STR_PLUS)

\* the step of digest that C21 speaks of, as claimed
C21_FragmentRetained_AsClaimed_Step ==
    (Idling /\ Seen.echo_enabled /\ ~HasLineTerminator(Seen.buf)
            /\ (NoiseHead \/ Seen.buf_incomplete))
    => After.buf = Seen.buf

C21_FragmentDropped_Step ==
    (Idling /\ Seen.echo_enabled /\ ~HasLineTerminator(Seen.buf))
    => /\ (~Seen.buf_incomplete /\ NoiseHead /\ ByteLen(Seen.buf) <= min_length)
          => /\ After.buf = Seen.buf
             /\ ~After.buf_incomplete
       /\ (Seen.buf_incomplete \/ (NoiseHead /\ ByteLen(Seen.buf) > min_length))
          => /\ After.buf = <<>>
             /\ After.buf_incomplete = ~EndsWithChar(Seen.buf, Seen.format_char)
             /\ After.state = Idle
             /\ PublishedNothing

C22_NoiseLineInChunks_Step ==
    (Idling /\ Seen.echo_enabled /\ (Seen.buf_incomplete \/ NoiseHead))
    => /\ After.state = Idle
       /\ PublishedNothing
       /\ HasLineTerminator(Seen.buf)
          => /\ After.buf = Drop(Seen.buf, FirstLineLen(Seen.buf))
             /\ ~After.buf_incomplete

RECURSIVE bytewise_digest(_, _)
bytewise_digest(s, data) ==
    IF data = <<>> THEN s
    ELSE bytewise_digest(digest(write(s, <<Head(data)>>)), Tail(data))

\* what the stream holds next is the echo line of a command
EchoNext ==
    /\ pos + Len(ECHO) <= Len(stream)
    /\ SubSeq(stream, pos + 1, pos + Len(ECHO)) = ECHO

\* C23: when the ingress is Idle with an empty buffer and the echo line
\* "AT\r\n" is written one byte at a time with a digest after every byte, then
\* after 'A' and after 'T' the bytes given so far are in the buffer and the
\* state is Idle, and after the last byte the state is ReceivingResponse.
C23_BytewiseEcho ==
    (state = Idle /\ buf = <<>> /\ com_q = <<>> /\ ~panicked /\ EchoNext)
    => /\ \A n \in 1..2 :
              /\ bytewise_digest(Self, Take(ECHO, n)).buf = Take(ECHO, n)
              /\ bytewise_digest(Self, Take(ECHO, n)).state = Idle
       /\ bytewise_digest(Self, ECHO).state = ReceivingResponse

\* the buffer as digest finds it starts with a terminal token: OK, ERROR or
\* a prompt byte
TokenAtHead ==
    \/ StartsWith(Seen.buf, STR_OK)
    \/ StartsWith(Seen.buf, STR_ERROR)
    \/ (Seen.buf # <<>> /\ IsPromptByte(Seen.buf[1]))

\* the step of digest that C24 speaks of
C24_TokensInIdle_Step ==
    /\ After.res_q # res_q => Seen.state = ReceivingResponse
    /\ (Idling /\ TokenAtHead) => (After.state = Idle /\ After.res_q = res_q)

\* C24: digest puts a response on the response queue only when it runs in
\* ReceivingResponse; a digest in Idle that finds OK, ERROR or a prompt byte
\* at the head of the buffer leaves the response queue as it is and the state
\* Idle.
C24_TokensInIdle == [][Digest => C24_TokensInIdle_Step]_vars

\* C24's case: "ERROR\r\n" is in the buffer in Idle, and the digest of it
\* removes it with nothing enqueued
C24_Witness ==
    /\ state = Idle
    /\ buf = STR_ERROR \o <<CR, LF>>
    /\ com_q = <<>>
    /\ res_q = <<>>
    /\ digest(Self).state = Idle
    /\ digest(Self).res_q = <<>>
    /\ digest(Self).buf = <<>>

\* the ingress with both of its queues emptied
Free == [Self EXCEPT !.res_q = <<>>, !.urc_q = <<>>]

\* but for the queues, the ingress after the step is t
AsIfEnqueued(t) ==
    /\ After.buf = t.buf
    /\ After.buf_incomplete = t.buf_incomplete
    /\ After.state = t.state
    /\ After.com_q = t.com_q
    /\ After.panicked = t.panicked

\* a full queue is left as it is
FullQueuesKept ==
    /\ Len(res_q) = ResCap => After.res_q = res_q
    /\ Len(urc_q) = UrcCap => After.urc_q = urc_q

\* the step of write or digest that C25 speaks of
C25_FullQueues_Step ==
    /\ Digest => (FullQueuesKept /\ AsIfEnqueued(digest(Free)))
    /\ pos' # pos => (FullQueuesKept /\ AsIfEnqueued(write(Free, Written))
                      /\ ~After.panicked)

\* C25: a write or a digest that finds the response queue (the URC queue)
\* full leaves the queue as it is, returns, and leaves the buffer and the
\* digester state as the same call leaves them when both queues are empty.
C25_FullQueues == [][C25_FullQueues_Step]_vars

\* C25's case: of six exchanges written and digested the responses of the
\* first five, "A" to "E", fill the response queue and the sixth is dropped,
\* with the buffer consumed and the state back in Idle
C25_Witness ==
    /\ stream = ResponseStream
    /\ pos = Len(stream)
    /\ state = Idle
    /\ buf = <<>>
    /\ res_q = [i \in 1..ResCap |-> Ok(<<64 + i>>)]

\* the URC part of C25's case: of eleven URC lines written and digested the
\* first ten fill the URC queue and the eleventh is dropped
C25_WitnessUrc ==
    /\ stream = UrcStream
    /\ pos = Len(stream)
    /\ buf = <<>>
    /\ urc_q = [i \in 1..UrcCap |-> UrcLine(i)]

\* "+U": the head of the line "+U\r\n"
STR_U == <<43, 85>>

\* the response "+U\r\nOK\r\n" of a command: one body line and OK
LateResponse == STR_U \o <<CR, LF>> \o STR_OK \o <<CR, LF>>

\* the unsolicited line "+U\r\n" followed by the response "D\r\nOK\r\n" of
\* the command that is outstanding
UrcThenResponse == STR_U \o <<CR, LF>> \o <<68, CR, LF>> \o STR_OK \o <<CR, LF>>

\* the step of digest that C26 speaks of
C26_Disjoint_Step ==
    /\ (ResetHead /\ state = ReceivingResponse /\ Len(com_q) = 1
            /\ ~After.panicked)
       => digest_all(write(After, LateResponse)).urc_q = After.urc_q
    /\ (After.state = ReceivingResponse /\ After.buf = <<>>
            /\ After.com_q = <<>> /\ ~After.panicked)
       => LET e == digest_all(write(After, UrcThenResponse))
          IN \A i \in 1..Len(e.res_q) : ~Contains(e.res_q[i].body, STR_U)

\* C26: the bytes of a response never reach the URC queue, also when the
\* response comes after a ClearBuffer has cancelled its command, and an
\* unsolicited line that comes while a response is awaited is not delivered
\* on the response queue, nor inside a response body.
C26_Disjoint == [][Digest => C26_Disjoint_Step]_vars

\* the first n bytes of the buffer were taken from its head, with every
\* terminator that followed them
TakenFromHead(n) ==
    /\ After.buf = Drop(Seen.buf, n)
    /\ After.buf = <<>> \/ ~IsTerminator(After.buf[1])

\* the bytes of s without the terminators at its end end with a token that
\* digest looks for in ReceivingResponse
EndsWithToken(s) ==
    \E tok \in {STR_OK, STR_ERROR, STR_GT, STR_AT_SIGN} :
        LET t == TrimEnd(s)
        IN Len(t) >= Len(tok) /\ Drop(t, Len(t) - Len(tok)) = tok

\* the step of digest that C27 speaks of
C27_ConsumeThenPublish_Step ==
    /\ After.res_q # Seen.res_q
       => \E n \in 1..Len(Seen.buf) :
              /\ TakenFromHead(n)
              /\ EndsWithToken(Take(Seen.buf, n))
              /\ Contains(Take(Seen.buf, n), Last(After.res_q).body)
    /\ After.urc_q # Seen.urc_q
       => \E n \in 1..Len(Seen.buf) :
              /\ TakenFromHead(n)
              /\ Last(After.urc_q) = Take(Seen.buf, n)

\* C27: when a digest has put a response or a URC on its queue, the bytes the
\* item was made from are gone from the head of the buffer: for a response a
\* prefix that ends with the token found and the terminators after it and
\* that holds the body published, for a URC the bytes published themselves;
\* what is left is the rest of the buffer and does not start with a
\* terminator.
C27_ConsumeThenPublish == [][Digest => C27_ConsumeThenPublish_Step]_vars

\* C27's case: the response OK was published while the URC line "+U\r\n" was
\* behind it in the buffer, where it still is
C27_Witness ==
    /\ state = Idle
    /\ res_q = << Ok(<<>>) >>
    /\ urc_q = <<>>
    /\ buf = STR_U \o <<CR, LF>>
    /\ ninputs = 3

\* the number of the URC line that starts at offset n (from 0) of UrcStream
UrcLineAt(n) == (n \div Len(UrcLine(1))) + 1

\* the number of a URC of UrcStream, from its second byte
UrcNo(urc) == urc[2] - 64

\* the buffer holds the last bytes of what was written of the stream
BufIsStreamTail ==
    /\ Len(buf) <= pos
    /\ buf = SubSeq(stream, pos - Len(buf) + 1, pos)

\* the step that C28 speaks of: the URC lines written are in the buffer in
\* the order of the stream, digest takes the line at the head of the buffer
\* to the tail of the queue, and the queue holds lines in the order of
\* their numbers
C28_UrcOrder_Step ==
    stream = UrcStream
    => /\ BufIsStreamTail'
       /\ (Digest /\ After.urc_q # urc_q)
          => /\ Len(urc_q) < UrcCap
             /\ \E n \in 1..Len(Seen.buf) :
                    /\ After.urc_q = Append(urc_q, Take(Seen.buf, n))
                    /\ After.buf = Drop(Seen.buf, n)
             /\ UrcNo(Last(After.urc_q)) = UrcLineAt(pos - Len(Seen.buf))
       /\ \A i, j \in 1..Len(urc_q') :
              i < j => UrcNo(urc_q'[i]) < UrcNo(urc_q'[j])

\* C28: the URC lines of the stream reach the URC queue in the order in which
\* they were written: a digest appends the line at the head of the unconsumed
\* bytes to the tail of the queue, the consumer takes from its head, so the
\* items taken are the lines of the stream in their order, less the ones
\* dropped on a full queue.
C28_UrcOrder == [][C28_UrcOrder_Step]_vars

\* C28's case: the first URC line was dequeued, the second and the third are
\* in the queue in that order
C28_Witness ==
    /\ stream = UrcStream
    /\ urc_q = << UrcLine(2), UrcLine(3) >>

\* the step of digest that C29 speaks of
C29_EchoDisabled_Step ==
    ~Seen.echo_enabled
    => /\ ~After.panicked
       /\ (Seen.state = ReceivingResponse /\ Contains(Seen.buf, STR_OK)
               /\ Len(Seen.res_q) < ResCap)
          => PublishedOne

\* C29: with echo disabled a digest completes: it does not abort in Idle, and
\* in ReceivingResponse (which the client forces) it publishes the response
\* that ends with OK.
C29_EchoDisabled == [][Digest => C29_EchoDisabled_Step]_vars

\* the bytes that write() was given since the digest in progress read the
\* buffer
WrittenSince == Drop(buf, Len(digesting.old.buf))

\* the step that C30 speaks of: when a digest ends, the bytes written since
\* it read the buffer are in the buffer behind what the digest left, or the
\* buffer is what the digest leaves when it is called after the write; and
\* while a digest that publishes a response is between its steps no write
\* puts an item on the response queue
C30_WritePreemptsDigest_Step ==
    /\ DigestEnd
       => \/ buf' = digesting.new.buf \o WrittenSince
          \/ buf' = digest(write(digesting.old, WrittenSince)).buf
    /\ (digesting.busy /\ digesting.new.res_q # digesting.old.res_q
            /\ ninputs' # ninputs)
       => res_q' = res_q

\* C30: a write() that runs between the steps of a digest() loses, doubles
\* and reorders no byte, and the response queue is not enqueued from the
\* write while the digest is in progress.
C30_WritePreemptsDigest == [][C30_WritePreemptsDigest_Step]_vars

\* the step of write that C31 speaks of
C31_WriteAppends_Step(data) ==
    Len(data) <= BufCap - ByteLen(buf)
    => /\ as_bytes(buf') = as_bytes(buf) \o data
       /\ ByteLen(buf') = ByteLen(buf) + Len(data)
       /\ state' = state
       /\ res_q' = res_q
       /\ urc_q' = urc_q
       /\ com_q' = com_q

\* C31: a write of data that fits in the free capacity leaves in the buffer
\* the bytes it held followed by the bytes of data, whatever their values,
\* makes it longer by the length of data, and leaves the state and the
\* queues as they are.
C31_WriteAppends ==
    [][\A data \in ByteChunks : Write(data) => C31_WriteAppends_Step(data)]_vars

\* b without the run of line terminators and formatting characters at its
\* head
RECURSIVE StripRun(_, _, _)
StripRun(b, ltc, fc) ==
    IF b # <<>> /\ Head(b) \in {ltc, fc} THEN StripRun(Tail(b), ltc, fc) ELSE b

\* the ingress when the control command of this call of digest is handled
Commanded == handle_com(Self)

\* C32: the buffer that the match on the state in digest finds is the
\* buffer, as the control command of the call left it, without the run of
\* line terminators and formatting characters at its head: nothing else is
\* removed, whatever the two characters are set to.
C32_TrimRun ==
    [][Digest => Seen.buf = StripRun(Commanded.buf, Commanded.line_term_char,
                                     Commanded.format_char)]_vars

\* the ingress with the setting that com names set, and nothing else changed
Applied(com) ==
    CASE com.cmd = "ForceState"  -> [Self EXCEPT !.state = com.st]
      [] com.cmd = "SetEcho"     -> [Self EXCEPT !.echo_enabled = com.en]
      [] com.cmd = "SetFormat"   -> [Self EXCEPT !.format_char = com.ch]
      [] com.cmd = "SetLineTerm" -> [Self EXCEPT !.line_term_char = com.ch]
      [] OTHER -> Self

\* the step of digest that C33 speaks of
C33_SettingsOnly_Step ==
    (com_q # <<>> /\ Head(com_q).cmd # "ClearBuffer")
    => LET com == Head(com_q)
       IN /\ Commanded = [Applied(com) EXCEPT !.com_q = Tail(com_q)]
          /\ After = [digest([Applied(com) EXCEPT !.com_q = <<>>])
                         EXCEPT !.com_q = Tail(com_q)]
          /\ com = ForceState(ReceivingResponse)
             => Seen.state = ReceivingResponse

\* C33: a digest that consumes ForceState, SetEcho, SetFormat or SetLineTerm
\* changes by the command the named setting only (the state, for
\* ForceState), not the buffer and not the response or URC queue, and then
\* goes on as a digest without a command does on the ingress with that
\* setting.
C33_SettingsOnly == [][Digest => C33_SettingsOnly_Step]_vars

\* C33's case: "AT\r\n" was in the buffer when SetLineTerm('x') was consumed,
\* and it still is
C33_Witness ==
    /\ line_term_char = 120
    /\ com_q = <<>>
    /\ buf = <<65, 84, 13, 10>>
    /\ state = Idle

\* the buffer holds a terminal token: OK or ERROR followed by the line
\* terminator, or a prompt byte
TerminalTokenIn(b) ==
    \/ \E tok \in {STR_OK, STR_ERROR} :
           \E i \in Matches(b, tok) :
               /\ i + Len(tok) + 1 <= Len(b)
               /\ b[i + Len(tok) + 1] = line_term_char
    \/ \E i \in 1..Len(b) : IsPromptByte(b[i])

\* the step of digest that C34 speaks of
C34_ResponseLive_Step ==
    (Receiving /\ TerminalTokenIn(Seen.buf))
    => /\ After.state = Idle
       /\ IF Len(Seen.res_q) < ResCap THEN PublishedOne
          ELSE After.res_q = Seen.res_q

\* C34: a digest in ReceivingResponse that finds a terminal token in the
\* buffer publishes a response, or drops it because the response queue is
\* full, and sets the state to Idle; and with digest called again and again
\* the ingress does not stay in ReceivingResponse with a terminal token in
\* its buffer: the state is Idle at some later time.
C34_ResponseLive ==
    /\ [][Digest => C34_ResponseLive_Step]_vars
    /\ (state = ReceivingResponse /\ TerminalTokenIn(buf)) ~> (state = Idle)

\* C34's case: after the echo the response "ERROR\r\n" came in
\* ReceivingResponse and a digest published it and went back to Idle
C34_Witness ==
    /\ state = Idle
    /\ res_q = << Err("InvalidResponse") >>
    /\ buf = <<>>
    /\ com_q = <<>>


\* C35: the incomplete-buffer flag is set only in Idle: whenever
\* buf_incomplete is true the state is Idle.
C35_FlagOnlyInIdle == buf_incomplete => state = Idle


\* C36: a digest() that is called returns: no step of digest aborts,
\* whatever the buffer holds, a noise line of more than 128 bytes included.
C36_DigestCompletes == [][Digest => ~panicked']_vars


\* the text without its 0x or 0X prefix
Unprefixed(t) ==
    IF Len(t) >= 2 /\ t[1] = 48 /\ t[2] \in {120, 88} THEN SubSeq(t, 3, Len(t)) ELSE t

\* the value of a hex digit character
DigitValue(c) ==
    CASE c \in 48..57 -> c - 48
      [] c \in {65, 97} -> 10
      [] c \in {66, 98} -> 11
      [] c \in {67, 99} -> 12
      [] c \in {68, 100} -> 13
      [] c \in {69, 101} -> 14
      [] c \in {70, 102} -> 15

IsHexDigit(c) == c \in (48..57) \cup (65..70) \cup (97..102)

\* the hex digits of t, in their order
HexDigitsOf(t) == SelectSeq(t, IsHexDigit)

\* the number that the hex digits d spell, most significant first
RECURSIVE HexValue(_)
HexValue(d) ==
    IF d = <<>> THEN 0
    ELSE 16 * HexValue(SubSeq(d, 1, Len(d) - 1)) + DigitValue(d[Len(d)])

\* the number that the text stands for
Spelled(t) == HexValue(HexDigitsOf(Unprefixed(t)))

\* HexStr<ty> was deserialized from a text
HexRead == call.fn = "HexStr" /\ call.step = "read"

\* C37: HexStr<uN> deserialized from a text is the value of the hex digits
\* of the text, read most significant first, its 0x/0X prefix stripped and
\* every other character ignored.
C37_HexParse ==
    (HexRead /\ from_utf8_ok(call.text))
    => call.out = Returned(Spelled(call.text))

\* C38: when the hex digits of the text spell a number that the type does
\* not hold, deserialization fails with "Invalid number".
C38_HexOverflowIsError ==
    (HexRead /\ from_utf8_ok(call.text) /\ Spelled(call.text) > max_value(call.arg))
    => call.out = Failed("Invalid number")


\* the integer type of the call and whether n is a value of it
InRange(n) == n >= min_value(call.arg.ty) /\ n <= max_value(call.arg.ty)

\* C39: the text that the serializer writes for a value v of i8 or u8 is
\* the decimal numeral of v, with no leading zero and no other byte, and the
\* deserializer reads it back as v; the numeral of a number outside the
\* type's range is read as the error InvalidNumber, the numeral of a number
\* inside it as that number.
C39_IntRoundTrip ==
    /\ (call.fn = "to_string" /\ call.step \in {"written", "read"})
       => call.text = Decimal(call.arg.v)
    /\ (call.fn = "to_string" /\ call.step = "read")
       => call.out = Returned(call.arg.v)
    /\ (call.fn = "from_slice" /\ call.step = "read")
       => call.out = IF InRange(call.arg.v) THEN Returned(call.arg.v)
                     ELSE Failed("InvalidNumber")

\* C39's case: the minimum of i8 was written as "-128" and read back
C39_Witness ==
    /\ call.fn = "to_string"
    /\ call.step = "read"
    /\ call.arg = [ty |-> "i8", v |-> 0 - 128]
    /\ call.text = <<45, 49, 50, 56>>
    /\ call.out = Returned(0 - 128)


\* the characters that get_line takes with the needle
LineEnd(c) == c \in {line_term_char, format_char}

\* the chars of b up to the end of the run of terminators that follows the
\* char at k (k counted from 1, 0 for none taken)
ThroughRun(b, k) ==
    Min({j \in k..Len(b) : j = Len(b) \/ ~LineEnd(b[j + 1])})

\* get_line was called on call.text, searching from the beginning, and
\* returned as the claim says
C40_GetLine ==
    LET old    == call.text
        needle == call.arg.needle
    IN IF ~Contains(old, needle)
       THEN ~call.out.some /\ buf = old
       ELSE LET cut == ThroughRun(old, Min(Matches(old, needle)) + Len(needle))
            IN /\ call.out.some
               /\ buf = Drop(old, cut)
               /\ call.out.line = IF call.arg.trim_response
                                  THEN Trim(Take(old, cut))
                                  ELSE Take(old, cut)
               /\ ~call.arg.trim_response => call.out.line \o buf = old

\* clear_buf was called on call.text and left what the claim says
C40_ClearBuf ==
    LET old == call.text
    IN /\ ~panicked
       /\ buf = IF call.arg.complete \/ ~Contains(old, <<line_term_char>>)
                THEN <<>>
                ELSE Drop(old, ThroughRun(old, Min(Matches(old, <<line_term_char>>)) + 1))

\* C40: get_line returns the prefix of the buffer through the first
\* occurrence of the needle and the run of line terminators and format
\* characters that follows it, and leaves the remainder (the prefix followed
\* by it is the old buffer if no trimming is asked for); without the needle
\* it returns None and leaves the buffer as it is.  clear_buf(false) removes
\* one line, or everything if there is no terminator; clear_buf(true)
\* empties the buffer.
C40_LineAndClear ==
    /\ (call.fn = "get_line" /\ call.step = "read" /\ ~call.arg.reverse)
       => C40_GetLine
    /\ (call.fn = "clear_buf" /\ call.step = "read")
       => C40_ClearBuf

====
